---- MODULE Spec2Model ----
(***************************************************************************)
(* Echo gateway: the HTTP authentication and proxying pipeline and the     *)
(* WebSocket sessions of the four gateway variants of the repository.      *)
(*   "gw1"   src/gateway/gateway.js lines 1-336    (v1.1)                  *)
(*   "gw2"   src/gateway/gateway.js lines 337-756  (v1.4, optimized)       *)
(*   "echo"  src/backend/echo.js                   (API gateway v1.0)      *)
(*   "echo1" src/backend/echo (1).js               (gateway v1.0)          *)
(* A deployment runs one variant; Init chooses it.  One inbound HTTP       *)
(* request is followed from arrival to its response; requests share no     *)
(* state, so one request slot covers every interleaving of requests (Spec). *)
(* The WebSocket sessions share the connection registry and are followed   *)
(* together (WsSpec).                                                      *)
(***************************************************************************)
EXTENDS Integers, Sequences, FiniteSets, TLC

VARIABLES variant, envSecret, running, pc, req, route, user, out, hops,
          waited, answers, failure, resp, upstreamCalls, responses,
          sessions, activeConnections, wsEvent, wsSent

vars == <<variant, envSecret, running, pc, req, route, user, out, hops,
          waited, answers, failure, resp, upstreamCalls, responses,
          sessions, activeConnections, wsEvent, wsSent>>

\* the state of the HTTP pipeline, and that of the WebSocket server
httpVars == <<pc, req, route, user, out, hops, waited, answers, failure, resp,
              upstreamCalls, responses>>

wsVars == <<sessions, activeConnections, wsEvent, wsSent>>

Variants == {"gw1", "gw2", "echo", "echo1"}

(***************************************************************************)
(* JavaScript values of token claims and headers: undefined or a string.   *)
(***************************************************************************)
Undef == [t |-> "undefined", v |-> ""]

Str(s) == [t |-> "string", v |-> s]

\* JavaScript truthiness: undefined and "" are falsy.
Truthy(x) == x.t # "undefined" /\ x.v # ""

\* a || b
Or(a, b) == IF Truthy(a) THEN a ELSE b

(***************************************************************************)
(* Bounds of the model.                                                    *)
(***************************************************************************)
\* ticks of TickMs a forwarded request may wait for the upstream
MaxTicks == 3

\* length of the chain of redirects the upstream may answer with
MaxHops == 1

\* milliseconds per tick of the wait for the upstream
TickMs == 5000

(***************************************************************************)
(* Configuration.                                                          *)
(***************************************************************************)
\* process.env.JWT_SECRET: set, or absent
EnvSecrets == {Str("s3cret"), Undef}

EchoDefaultSecret == "echo-secret-key-change-in-production"

\* const JWT_SECRET = process.env.JWT_SECRET [|| default]
JWT_SECRET(v, env) == IF v = "echo" THEN Or(env, Str(EchoDefaultSecret)) ELSE env

\* if (!JWT_SECRET) process.exit(1): the process runs only with a secret
StartsUp(v, env) == Truthy(JWT_SECRET(v, env))

\* axiosInstance timeout: 10000 ms
RequestTimeout == 10000

\* the timeout of the axios call that forwards a request (0: none, axios' default)
ForwardTimeout(v) == IF v = "gw2" THEN RequestTimeout ELSE 0

\* maxRedirects: 0 on axiosInstance; elsewhere axios follows redirects
FollowsRedirects(v) == v # "gw2"

(***************************************************************************)
(* Tokens.  A token is garbage (not a JWT) or a JWT signed with some key,  *)
(* expired or not, carrying claims.                                       *)
(***************************************************************************)
Keys == {"s3cret", "wrong-key", EchoDefaultSecret}

IdValues == {Undef, Str(""), Str("u1"), Str("u2")}

Garbage == [form |-> "garbage", key |-> "", expired |-> FALSE,
            userId |-> Undef, id |-> Undef, user_id |-> Undef, role |-> Undef]

Jwt(k, e, a, b, c, r) == [form |-> "jwt", key |-> k, expired |-> e,
                          userId |-> a, id |-> b, user_id |-> c, role |-> r]

\* every token shape, with the role left out
AllTokens == {Garbage} \cup
             {Jwt(k, e, a, b, c, Undef) :
                k \in Keys, e \in BOOLEAN, a \in IdValues, b \in IdValues, c \in IdValues}

\* representative tokens, used where the path and the headers vary
FewTokens == {Garbage,
              Jwt("s3cret", FALSE, Str("u1"), Undef, Undef, Str("admin")),
              Jwt("s3cret", FALSE, Undef, Str("u2"), Str("u1"), Undef),
              Jwt("s3cret", FALSE, Undef, Undef, Undef, Str("admin")),
              Jwt("s3cret", TRUE, Str("u1"), Undef, Undef, Undef),
              Jwt("wrong-key", FALSE, Str("u1"), Undef, Undef, Str("admin"))}

\* jwt.verify(token, secret): the decoded claims, or the error it throws.
\* jsonwebtoken checks the form, then the signature, then the expiry.
jwtVerify(token, secret) ==
  IF token.form # "jwt" THEN [ok |-> FALSE, name |-> "JsonWebTokenError", decoded |-> token]
  ELSE IF Str(token.key) # secret
       THEN [ok |-> FALSE, name |-> "JsonWebTokenError", decoded |-> token]
  ELSE IF token.expired
       THEN [ok |-> FALSE, name |-> "TokenExpiredError", decoded |-> token]
  ELSE [ok |-> TRUE, name |-> "", decoded |-> token]

(***************************************************************************)
(* Strings.                                                                *)
(***************************************************************************)
\* String.prototype.startsWith
StartsWith(s, p) == Len(s) >= Len(p) /\ SubSeq(s, 1, Len(p)) = p

UpperCase == "ABCDEFGHIJKLMNOPQRSTUVWXYZ"

LowerCase == "abcdefghijklmnopqrstuvwxyz"

LowerChar(c) ==
  IF \E i \in 1..Len(UpperCase) : SubSeq(UpperCase, i, i) = c
  THEN LET i == CHOOSE j \in 1..Len(UpperCase) : SubSeq(UpperCase, j, j) = c
       IN SubSeq(LowerCase, i, i)
  ELSE c

RECURSIVE toLowerCase(_)
\* String.prototype.toLowerCase
toLowerCase(s) ==
  IF Len(s) = 0 THEN ""
  ELSE LowerChar(SubSeq(s, 1, 1)) \o toLowerCase(SubSeq(s, 2, Len(s)))

RECURSIVE SegmentEnd(_, _)
\* the index of the last character of the path segment that starts at i
SegmentEnd(s, i) ==
  IF i > Len(s) THEN Len(s)
  ELSE IF SubSeq(s, i, i) = "/" THEN i - 1
  ELSE SegmentEnd(s, i + 1)

\* the first segment of a path: what Express binds to :schoolId in '/:schoolId*'
FirstSegment(path) == SubSeq(path, 2, SegmentEnd(path, 2))

(***************************************************************************)
(* Inbound requests.                                                       *)
(***************************************************************************)
Paths == {"/", "/auth/login", "/login", "/users/login", "/users/42",
          "/api/schools", "/api/widgets", "/schools", "/health", "/health/live",
          "/healthcheck-2024", "/Health-Records", "/school-abcdef-1/classes",
          "/nope"}

\* paths behind authentication in some variant, used where the token varies
FewPaths == {"/users/42", "/api/schools"}

Methods == {"GET", "POST"}

Queries == {"", "page=2"}

\* a client-supplied x-user-id or x-user-role header
Spoofs == {Undef, Str("root")}

NoAuthorization == [scheme |-> "none", token |-> Garbage]

BasicAuthorization == [scheme |-> "basic", token |-> Garbage]

Bearer(tok) == [scheme |-> "bearer", token |-> tok]

Request(m, p, q, a, xi, xr) ==
  [method |-> m, path |-> p, query |-> q, authorization |-> a,
   xUserId |-> xi, xUserRole |-> xr, body |-> ""]

\* the JSON bodies of inbound requests: well-formed, and cut short
InboundBodies == {"{ \"a\": 1 }", "{\"a\":"}

\* the same request with a body
withBody(r, b) == [r EXCEPT !.body = b]

\* the inbound requests of the model: every path, method, query and spoofed
\* header with representative credentials, and every token on the paths behind
\* authentication
Requests ==
  {Request(m, p, q, a, xi, xr) :
     m \in Methods, p \in Paths, q \in Queries,
     a \in {NoAuthorization, BasicAuthorization} \cup {Bearer(t) : t \in FewTokens},
     xi \in Spoofs, xr \in Spoofs}
  \cup
  {Request("GET", p, "", Bearer(t), Undef, Undef) : p \in FewPaths, t \in AllTokens}
  \cup
  {withBody(Request("POST", p, q, a, Undef, Undef), b) :
     p \in {"/auth/login", "/users/42", "/api/schools", "/nope"}, q \in Queries,
     a \in {NoAuthorization,
            Bearer(Jwt("s3cret", FALSE, Str("u1"), Undef, Undef, Str("admin")))},
     b \in InboundBodies}

NoRequest == Request("", "", "", NoAuthorization, Undef, Undef)

\* req.originalUrl: the path with the query string
originalUrl(r) == IF r.query = "" THEN r.path ELSE r.path \o "?" \o r.query

\* authHeader && authHeader.startsWith('Bearer ')
hasBearer(r) == r.authorization.scheme = "bearer"

(***************************************************************************)
(* Responses, identities and outbound requests.                            *)
(***************************************************************************)
\* a response of the gateway: a structured body {success, error, code, path},
\* the text of a relayed body, or the fields {status, backend} of a health
\* body with the exception text it carries (detail)
Response(st, c, e, p, b) ==
  [status |-> st, code |-> c, error |-> e, path |-> p, body |-> b,
   health |-> "", backend |-> "", detail |-> ""]

NoResponse == Response(0, "", "", "", "")

\* res.status(st).json({success: false, error: e, code: c})
ErrorBody(st, c, e) == Response(st, c, e, "", "")

\* req.user: unset, or the identity taken from the token
NoUser == [set |-> FALSE, id |-> Undef, role |-> Undef]

User(i, r) == [set |-> TRUE, id |-> i, role |-> r]

\* the request axios is asked to send: url and params (the query is sent in
\* both when the url is req.originalUrl), the identity headers, and whether
\* validateStatus accepts every status
Outbound(m, u, q, xi, xr, all) ==
  [issued |-> TRUE, method |-> m, url |-> u, params |-> q,
   xUserId |-> xi, xUserRole |-> xr, anyStatus |-> all, data |-> ""]

NoOutbound == [issued |-> FALSE, method |-> "", url |-> "", params |-> "",
               xUserId |-> Undef, xUserRole |-> Undef, anyStatus |-> FALSE, data |-> ""]

\* what the synchronous part of a handler does: send a response, issue the
\* upstream request, probe the upstream's health, or call next()
Respond(r, u, h) == [kind |-> "respond", resp |-> r, user |-> u, out |-> NoOutbound, handler |-> h]

Forward(o, u, h) == [kind |-> "forward", resp |-> NoResponse, user |-> u, out |-> o, handler |-> h]

Probe(h) == [kind |-> "probe", resp |-> NoResponse, user |-> NoUser, out |-> NoOutbound, handler |-> h]

CallNext == [kind |-> "next", resp |-> NoResponse, user |-> NoUser, out |-> NoOutbound, handler |-> ""]

\* the outcome of an authentication middleware: next() with req.user, or a 401
Pass(u) == [next |-> TRUE, user |-> u, resp |-> NoResponse]

Reject(r) == [next |-> FALSE, user |-> NoUser, resp |-> r]

(***************************************************************************)
(* Authentication middleware.                                              *)
(***************************************************************************)
\* gateway.js v1.1: userId || id || user_id, in req.user and on the WebSocket
resolveId_gw1(decoded) == Or(Or(decoded.userId, decoded.id), decoded.user_id)

wsUserId_gw1(decoded) == Or(Or(decoded.userId, decoded.id), decoded.user_id)

\* the order of gateway.js v1.1 in the place of that of v1.4
resolveId_gw2_v11order(decoded) == Or(Or(decoded.userId, decoded.id), decoded.user_id)

\* gateway.js v1.4: user_id || userId || id
resolveId_gw2(decoded) == Or(Or(decoded.user_id, decoded.userId), decoded.id)

wsUserId_gw2(decoded) == Or(Or(decoded.user_id, decoded.userId), decoded.id)

\* echo.js: userId || id || user_id (authenticate, the /users* handler, the WebSocket)
resolveId_echo(decoded) == Or(Or(decoded.userId, decoded.id), decoded.user_id)

resolveId_users(decoded) == Or(Or(decoded.userId, decoded.id), decoded.user_id)

wsUserId_echo(decoded) == Or(Or(decoded.userId, decoded.id), decoded.user_id)

\* echo (1).js: userId || id || user_id
resolveId_echo1(decoded) == Or(Or(decoded.userId, decoded.id), decoded.user_id)

wsUserId_echo1(decoded) == Or(Or(decoded.userId, decoded.id), decoded.user_id)

\* !decoded.userId && !decoded.id && !decoded.user_id
lacksUserId(decoded) ==
  ~Truthy(decoded.userId) /\ ~Truthy(decoded.id) /\ ~Truthy(decoded.user_id)

publicPaths_gw1 == {"/auth/login", "/auth/register", "/health", "/"}

publicPaths_gw2 == {"/login", "/register", "/health", "/"}

publicPaths_echo == {"/auth/login", "/auth/register", "/users/login", "/users/register"}

publicPaths_echo1 == {"/auth/login", "/auth/register", "/health", "/"}

NoTokenResponse == ErrorBody(401, "NO_TOKEN", "Access denied. No token provided.")

\* gateway.js v1.1 authenticate
authenticate_gw1(r, secret) ==
  IF r.path \in publicPaths_gw1 THEN Pass(NoUser)
  ELSE IF ~hasBearer(r) THEN Reject(NoTokenResponse)
  ELSE LET v == jwtVerify(r.authorization.token, secret) IN
       IF v.ok
       THEN IF lacksUserId(v.decoded)
            THEN Reject(ErrorBody(401, "INVALID_TOKEN", "Invalid token format"))
            ELSE Pass(User(resolveId_gw1(v.decoded), v.decoded.role))
       ELSE IF v.name = "TokenExpiredError"
            THEN Reject(ErrorBody(401, "TOKEN_EXPIRED", "Token expired. Please login again."))
            ELSE Reject(ErrorBody(401, "INVALID_TOKEN", "Invalid token."))

\* the public-route test of gateway.js v1.4
isPublic_gw2(path) ==
  LET requestPath == toLowerCase(path) IN
  requestPath \in publicPaths_gw2 \/ StartsWith(requestPath, "/health")

\* gateway.js v1.4 authenticate
authenticate_gw2(r, secret) ==
  IF isPublic_gw2(r.path) THEN Pass(NoUser)
  ELSE IF ~hasBearer(r) THEN Reject(NoTokenResponse)
  ELSE LET v == jwtVerify(r.authorization.token, secret) IN
       IF v.ok
       THEN Pass(User(resolveId_gw2(v.decoded), v.decoded.role))
       ELSE IF v.name = "TokenExpiredError"
            THEN Reject(ErrorBody(401, "TOKEN_EXPIRED", "Token expired. Please login again."))
            ELSE Reject(ErrorBody(401, "INVALID_TOKEN", "Invalid token."))

\* echo.js authenticate
authenticate_echo(r, secret) ==
  IF r.path \in publicPaths_echo THEN Pass(NoUser)
  ELSE IF ~hasBearer(r) THEN Reject(NoTokenResponse)
  ELSE LET v == jwtVerify(r.authorization.token, secret) IN
       IF v.ok
       THEN IF lacksUserId(v.decoded)
            THEN Reject(ErrorBody(401, "INVALID_TOKEN_FORMAT",
                                  "Invalid token: missing user identification"))
            ELSE Pass(User(resolveId_echo(v.decoded), v.decoded.role))
       ELSE IF v.name = "TokenExpiredError"
            THEN Reject(ErrorBody(401, "TOKEN_EXPIRED", "Token has expired"))
       ELSE IF v.name = "JsonWebTokenError"
            THEN Reject(ErrorBody(401, "MALFORMED_TOKEN", "Malformed token"))
            ELSE Reject(ErrorBody(401, "INVALID_TOKEN", "Invalid token"))

\* echo.js: the authentication written inside the /users* handler, after its
\* login/register test
authenticate_users(r, secret) ==
  IF ~hasBearer(r) THEN Reject(NoTokenResponse)
  ELSE LET v == jwtVerify(r.authorization.token, secret) IN
       IF v.ok
       THEN Pass(User(resolveId_users(v.decoded), Undef))
       ELSE Reject(ErrorBody(401, "INVALID_TOKEN", "Invalid token"))

\* echo (1).js authenticate
authenticate_echo1(r, secret) ==
  IF r.path \in publicPaths_echo1 THEN Pass(NoUser)
  ELSE IF ~hasBearer(r) THEN Reject(NoTokenResponse)
  ELSE LET v == jwtVerify(r.authorization.token, secret) IN
       IF v.ok
       THEN IF lacksUserId(v.decoded)
            THEN Reject(ErrorBody(401, "INVALID_TOKEN", "Invalid token format"))
            ELSE Pass(User(resolveId_echo1(v.decoded), v.decoded.role))
       ELSE IF v.name = "TokenExpiredError"
            THEN Reject(ErrorBody(401, "TOKEN_EXPIRED", "Token expired. Please login again."))
            ELSE Reject(ErrorBody(401, "INVALID_TOKEN", "Invalid token."))

(***************************************************************************)
(* Bodies: what axios makes of the upstream's body and what res.json sends.*)
(***************************************************************************)
Bodies == {"{\"ok\":true}", "{ \"ok\": true }", "Not Found", ""}

RECURSIVE StripSpaces(_)
StripSpaces(s) ==
  IF Len(s) = 0 THEN ""
  ELSE IF SubSeq(s, 1, 1) = " " THEN StripSpaces(SubSeq(s, 2, Len(s)))
  ELSE SubSeq(s, 1, 1) \o StripSpaces(SubSeq(s, 2, Len(s)))

\* axios' transformResponse: a body that parses as JSON becomes its value
\* (kept as its compact text), any other body stays the string it is
axiosData(text) ==
  IF Len(text) > 0 /\ SubSeq(text, 1, 1) = "{"
  THEN [t |-> "json", v |-> StripSpaces(text)]
  ELSE [t |-> "string", v |-> text]

\* res.json(data): JSON.stringify of the value; a string is sent quoted
resJson(data) == IF data.t = "json" THEN data.v ELSE "\"" \o data.v \o "\""

\* res.status(response.status).json(response.data)
relay(st, text) == Response(st, "", "", "", resJson(axiosData(text)))

(***************************************************************************)
(* The forwarding handlers, up to the axios call.                          *)
(***************************************************************************)
\* req.user?.id, req.user?.role
optId(u) == IF u.set THEN u.id ELSE Undef

optRole(u) == IF u.set THEN u.role ELSE Undef

\* gateway.js v1.1 proxyRequest: the axios call
proxyRequest_gw1(r, u) ==
  Forward(Outbound(r.method, originalUrl(r), r.query, optId(u), optRole(u), TRUE),
          u, "proxyRequest")

\* gateway.js v1.1 createProxyHandler
createProxyHandler_gw1(requiresAuth, r, secret) ==
  IF requiresAuth
  THEN LET a == authenticate_gw1(r, secret) IN
       IF a.next THEN proxyRequest_gw1(r, a.user) ELSE Respond(a.resp, NoUser, "authenticate")
  ELSE proxyRequest_gw1(r, NoUser)

\* gateway.js v1.4 handleProxyRequest: the axiosInstance call
handleProxyRequest_gw2(r, u) ==
  Forward(Outbound(r.method, originalUrl(r), r.query,
                   Or(optId(u), Str("")), Or(optRole(u), Str("")), TRUE),
          u, "handleProxyRequest")

\* gateway.js v1.4 createProxyHandler
createProxyHandler_gw2(requiresAuth, r, secret) ==
  IF requiresAuth
  THEN LET a == authenticate_gw2(r, secret) IN
       IF a.next THEN handleProxyRequest_gw2(r, a.user)
       ELSE Respond(a.resp, NoUser, "authenticate")
  ELSE handleProxyRequest_gw2(r, NoUser)

\* gateway.js v1.4 app.all('/:schoolId*')
schoolIdRoute_gw2(r, secret) ==
  IF Len(FirstSegment(r.path)) > 10
  THEN createProxyHandler_gw2(TRUE, r, secret)
  ELSE CallNext

\* echo.js app.all('/users*'): ...req.headers goes upstream as it came
usersRoute_echo(r, secret) ==
  IF r.path = "/users/login" \/ r.path = "/users/register" THEN CallNext
  ELSE LET a == authenticate_users(r, secret) IN
       IF a.next
       THEN Forward(Outbound(r.method, r.path, r.query, r.xUserId, r.xUserRole, TRUE),
                    a.user, "usersRoute")
       ELSE Respond(a.resp, NoUser, "usersRoute")

\* echo.js app.all('/api/schools*', authenticate, ...): x-user-id is set from
\* req.user.userId, which throws inside the try when authenticate passed
\* without a user; the catch answers
schoolsRoute_echo(r, secret) ==
  LET a == authenticate_echo(r, secret) IN
  IF ~a.next THEN Respond(a.resp, NoUser, "authenticate")
  ELSE IF ~a.user.set
       THEN Respond(ErrorBody(502, "SERVICE_UNAVAILABLE", "Python service unavailable"),
                    NoUser, "schoolsRoute")
  ELSE Forward(Outbound(r.method, r.path, r.query, a.user.id, r.xUserRole, TRUE),
               a.user, "schoolsRoute")

\* echo.js app.post('/auth/login'): axios.post(`${PYTHON_BACKEND}/users/login`, req.body)
loginRoute_echo(r) ==
  Forward(Outbound("POST", "/users/login", "", Undef, Undef, FALSE), NoUser, "loginRoute")

\* echo.js app.post('/auth/register')
registerRoute_echo(r) ==
  Forward(Outbound("POST", "/users/register", "", Undef, Undef, FALSE), NoUser, "loginRoute")

\* echo (1).js createProxyHandler: authentication, then the axios call
createProxyHandler_echo1(requiresAuth, r, secret) ==
  LET a == IF requiresAuth THEN authenticate_echo1(r, secret) ELSE Pass(NoUser) IN
  IF a.next
  THEN Forward(Outbound(r.method, originalUrl(r), r.query, optId(a.user), optRole(a.user), TRUE),
               a.user, "createProxyHandler")
  ELSE Respond(a.resp, NoUser, "authenticate")

(***************************************************************************)
(* Routes.  Express 4 tries the routes in the order of their registration; *)
(* paths match without regard to case and to one trailing slash.           *)
(*   exact   '/auth/login'    the path itself                               *)
(*   prefix  '/users*'        every path that starts with the text          *)
(*   param   '/:schoolId*'    every path with a first segment               *)
(***************************************************************************)
Route(m, k, p, h, a) == [method |-> m, kind |-> k, pattern |-> p, handler |-> h, auth |-> a]

NoRoute == Route("", "", "", "", FALSE)

\* the protected routes '/api/schools*' ... of gateway.js v1.1 and echo (1).js
ApiResources == <<"/api/schools", "/api/classes", "/api/teachers", "/api/students",
                  "/api/subjects", "/api/grades", "/api/reports", "/api/payments",
                  "/api/users">>

\* the protected routes '/schools*' ... of gateway.js v1.4
Resources_gw2 == <<"/schools", "/teachers", "/students", "/classes", "/subjects",
                   "/users", "/dashboard", "/utils">>

Routes_gw1 ==
  <<Route("ALL", "exact", "/auth/login", "proxy", FALSE),
    Route("ALL", "exact", "/auth/register", "proxy", FALSE),
    Route("ALL", "exact", "/schools/join", "proxy", TRUE),
    Route("ALL", "exact", "/schools/create-and-join", "proxy", TRUE)>>
  \o [i \in 1..Len(ApiResources) |-> Route("ALL", "prefix", ApiResources[i], "proxy", TRUE)]
  \o <<Route("ALL", "prefix", "/api/", "proxy", TRUE),
       Route("GET", "exact", "/health", "health", FALSE),
       Route("GET", "exact", "/", "info", FALSE)>>

Routes_gw2 ==
  <<Route("ALL", "exact", "/login", "proxy", FALSE),
    Route("ALL", "exact", "/register", "proxy", FALSE),
    Route("ALL", "exact", "/create-and-join", "proxy", TRUE),
    Route("ALL", "exact", "/join", "proxy", TRUE)>>
  \o [i \in 1..Len(Resources_gw2) |-> Route("ALL", "prefix", Resources_gw2[i], "proxy", TRUE)]
  \o <<Route("ALL", "param", "/:schoolId*", "schoolId", TRUE),
       Route("GET", "exact", "/health", "health", FALSE),
       Route("GET", "exact", "/", "info", FALSE)>>

\* the routes of echo.js that reach the upstream, and its local ones; the
\* mail, SMS and upload routes call third parties and are left out
Routes_echo ==
  <<Route("ALL", "prefix", "/users", "users", TRUE),
    Route("ALL", "prefix", "/api/schools", "schools", TRUE),
    Route("ALL", "prefix", "/grades", "schools", TRUE),
    Route("ALL", "prefix", "/results", "schools", TRUE),
    Route("ALL", "prefix", "/payments", "schools", TRUE),
    Route("POST", "exact", "/auth/register", "register", FALSE),
    Route("POST", "exact", "/auth/login", "login", FALSE),
    Route("GET", "exact", "/health", "health", FALSE),
    Route("GET", "exact", "/", "info", FALSE)>>

Routes_echo1 ==
  <<Route("POST", "exact", "/auth/login", "proxy", FALSE),
    Route("POST", "exact", "/auth/register", "proxy", FALSE)>>
  \o [i \in 1..Len(ApiResources) |-> Route("ALL", "prefix", ApiResources[i], "proxy", TRUE)]
  \o <<Route("GET", "exact", "/health", "health", FALSE),
       Route("GET", "exact", "/", "info", FALSE)>>

Routes(v) == CASE v = "gw1" -> Routes_gw1
               [] v = "gw2" -> Routes_gw2
               [] v = "echo" -> Routes_echo
               [] v = "echo1" -> Routes_echo1

\* whether Express hands the request to the route; p: the path in lower case
Matches(rt, r, p) ==
  /\ rt.method \in {"ALL", r.method}
  /\ CASE rt.kind = "exact" -> p = rt.pattern \/ (rt.pattern # "/" /\ p = rt.pattern \o "/")
       [] rt.kind = "prefix" -> StartsWith(p, rt.pattern)
       [] rt.kind = "param" -> Len(FirstSegment(p)) > 0

\* the health handlers: gateway.js and echo (1).js probe the upstream first,
\* echo.js answers at once
healthRoute(v) ==
  IF v = "echo"
  THEN Respond([Response(200, "", "", "", "") EXCEPT !.health = "running"], NoUser, "health")
  ELSE Probe("health")

\* app.get('/'): the static service descriptor
infoRoute == Respond(Response(200, "", "", "", "service descriptor"), NoUser, "info")

\* a request no route took: the 404 handler of the gateway variants, and in
\* echo.js, which has none, the 404 page of Express
notFound(v, r) ==
  IF v = "echo"
  THEN Respond(Response(404, "", "", "", "Cannot " \o r.method \o " " \o r.path),
               NoUser, "finalhandler")
  ELSE Respond(ErrorBody(404, "NOT_FOUND",
                         "Route not found: " \o r.method \o " " \o originalUrl(r)),
               NoUser, "notFound")

\* the handler a route names, run on the request
runHandler(v, rt, r, secret) ==
  CASE rt.handler = "proxy" /\ v = "gw1" -> createProxyHandler_gw1(rt.auth, r, secret)
    [] rt.handler = "proxy" /\ v = "gw2" -> createProxyHandler_gw2(rt.auth, r, secret)
    [] rt.handler = "proxy" /\ v = "echo1" -> createProxyHandler_echo1(rt.auth, r, secret)
    [] rt.handler = "schoolId" -> schoolIdRoute_gw2(r, secret)
    [] rt.handler = "users" -> usersRoute_echo(r, secret)
    [] rt.handler = "schools" -> schoolsRoute_echo(r, secret)
    [] rt.handler = "login" -> loginRoute_echo(r)
    [] rt.handler = "register" -> registerRoute_echo(r)
    [] rt.handler = "health" -> healthRoute(v)
    [] rt.handler = "info" -> infoRoute

RECURSIVE router(_, _, _, _, _, _)
\* Express' router over the routes rts from route i on: the first matching
\* route whose handler does not call next() decides; [route, result]
router(v, rts, r, p, secret, i) ==
  IF i > Len(rts) THEN [route |-> NoRoute, result |-> notFound(v, r)]
  ELSE IF ~Matches(rts[i], r, p) THEN router(v, rts, r, p, secret, i + 1)
  ELSE IF runHandler(v, rts[i], r, secret).kind = "next"
       THEN router(v, rts, r, p, secret, i + 1)
  ELSE [route |-> rts[i], result |-> runHandler(v, rts[i], r, secret)]

\* the request through the routes of the variant
dispatch(v, r, secret) == router(v, Routes(v), r, toLowerCase(r.path), secret, 1)

\* express.json(): req.body is {} without a body, the parsed value (kept as
\* its compact text) of a well-formed one; a body that does not parse makes
\* the middleware call next(err)
expressJson(b) ==
  IF b = "" THEN [ok |-> TRUE, value |-> "{}"]
  ELSE IF SubSeq(b, 1, 1) = "{" /\ SubSeq(b, Len(b), Len(b)) = "}"
       THEN [ok |-> TRUE, value |-> StripSpaces(b)]
  ELSE [ok |-> FALSE, value |-> ""]

\* the error-handling middleware: app.use((err, req, res, next) => ...), and
\* errorHandler of echo.js
errorHandler(v) ==
  IF v = "echo" THEN ErrorBody(500, "INTERNAL_ERROR", "Internal server error")
  ELSE ErrorBody(500, "GATEWAY_ERROR", "Internal gateway error")

RECURSIVE indexOf(_, _, _)
\* the position of the character c in s from position i on, 0 if there is none
indexOf(s, c, i) ==
  IF i > Len(s) THEN 0
  ELSE IF SubSeq(s, i, i) = c THEN i
  ELSE indexOf(s, c, i + 1)

\* axios' buildURL: params are serialised and appended to the url, after a
\* "&" if the url has a query string already
buildURL(url, params) ==
  IF params = "" THEN url
  ELSE IF indexOf(url, "?", 1) = 0 THEN url \o "?" \o params
  ELSE url \o "&" \o params

\* data: req.body of the axios call, serialised by axios
sendBody(o, r) == IF o.issued THEN [o EXCEPT !.data = expressJson(r.body).value] ELSE o

\* the middleware stack: the body parser, then the routes; an error of the
\* parser skips the routes and lands in the error handler
app(v, r, secret) ==
  IF expressJson(r.body).ok THEN dispatch(v, r, secret)
  ELSE [route |-> NoRoute, result |-> Respond(errorHandler(v), NoUser, "errorHandler")]

(***************************************************************************)
(* The upstream's side of a forwarded request, and the handlers' catch.    *)
(***************************************************************************)
Statuses == {200, 302, 404, 500}

\* an answer of the upstream; location: a 3xx that names a Location to follow
Answer(st, b, loc) == [status |-> st, body |-> b, location |-> loc]

Answers == {Answer(st, b, FALSE) : st \in Statuses, b \in Bodies} \cup {Answer(302, "", TRUE)}

\* transport failures of the axios call, and the code of its own timeout
TransportErrors == {"ECONNREFUSED", "ENOTFOUND", "ECONNRESET", "ETIMEDOUT"}

Error(c) == [code |-> c, hasResponse |-> FALSE, status |-> 0, body |-> ""]

\* the error axios rejects with when validateStatus refuses the status
StatusError(a) == [code |-> "ERR_BAD_RESPONSE", hasResponse |-> TRUE,
                   status |-> a.status, body |-> a.body]

\* whether axios resolves with the answer: validateStatus: () => true, or
\* axios' default, 2xx only
resolves(o, a) == o.anyStatus \/ (a.status >= 200 /\ a.status < 300)

\* gateway.js v1.1 proxyRequest: catch
catch_gw1(r, err) ==
  Response(502, "BACKEND_ERROR", "Backend service unavailable", originalUrl(r), "")

\* gateway.js v1.4 handleProxyRequest: catch
catch_gw2(r, err) ==
  IF err.code = "ECONNABORTED"
  THEN Response(504, "BACKEND_TIMEOUT", "Backend timeout", originalUrl(r), "")
  ELSE IF err.hasResponse THEN relay(err.status, err.body)
  ELSE Response(502, "BACKEND_ERROR", "Backend service unavailable", originalUrl(r), "")

\* echo.js, the proxy routes: catch
catch_echo(r, err) == ErrorBody(502, "SERVICE_UNAVAILABLE", "Python service unavailable")

\* echo.js app.post('/auth/login'): catch
catch_login_echo(r, err) ==
  IF err.hasResponse THEN relay(err.status, err.body)
  ELSE Response(500, "", "Login failed", "", "")

\* echo (1).js createProxyHandler: catch; no body of the model has an error field
catch_echo1(r, err) ==
  Response(IF err.hasResponse THEN err.status ELSE 502, "BACKEND_ERROR",
           "Backend service unavailable", originalUrl(r), "")

\* the catch block of the handler that forwarded the request
catch(v, h, r, err) ==
  CASE v = "gw1" -> catch_gw1(r, err)
    [] v = "gw2" -> catch_gw2(r, err)
    [] v = "echo1" -> catch_echo1(r, err)
    [] v = "echo" /\ h = "loginRoute" -> catch_login_echo(r, err)
    [] v = "echo" /\ h # "loginRoute" -> catch_echo(r, err)

\* the response to the client once axios settles with the upstream's answer
settle(v, h, r, o, a) ==
  IF resolves(o, a) THEN relay(a.status, a.body) ELSE catch(v, h, r, StatusError(a))

\* the health bodies once the probe settles
healthy(v) ==
  [Response(200, "", "", "", "") EXCEPT !.health = "healthy", !.backend = "connected"]

degraded(v, msg) ==
  IF v = "echo1"
  THEN [Response(503, "", "Backend unreachable", "", "")
          EXCEPT !.health = "degraded", !.backend = "PYTHON_BACKEND"]
  ELSE [Response(200, "", "", "", "")
          EXCEPT !.health = "degraded", !.backend = "disconnected", !.detail = msg]

(***************************************************************************)
(* WebSocket sessions, the connection registry and the frames.             *)
(***************************************************************************)
\* WebSocket sessions the model follows
MaxSessions == 3

Handles == 1..MaxSessions

\* the upgrade request carries no token query parameter
Absent == [form |-> "absent", key |-> "", expired |-> FALSE,
           userId |-> Undef, id |-> Undef, user_id |-> Undef, role |-> Undef]

\* the token query parameter of the upgrade requests
WsTokens == {Absent, Garbage,
             Jwt("s3cret", FALSE, Str("u1"), Undef, Undef, Undef),
             Jwt("s3cret", FALSE, Str("u2"), Undef, Undef, Undef),
             Jwt("s3cret", FALSE, Undef, Str("u2"), Str("u1"), Undef),
             Jwt("s3cret", FALSE, Undef, Undef, Undef, Str("admin")),
             Jwt("s3cret", TRUE, Str("u1"), Undef, Undef, Undef),
             Jwt("wrong-key", FALSE, Str("u1"), Undef, Undef, Undef)}

\* a session: the state of its transport, the userId its handlers closed
\* over, the handlers the connection handler attached, the close code
Session(st, uid, onM, onC, cc) ==
  [state |-> st, userId |-> uid, onMessage |-> onM, onClose |-> onC, closeCode |-> cc]

NoSession == Session("new", Undef, FALSE, FALSE, 0)

\* userId.toString(), receiverId.toString()
toString(x) == x.v

\* activeConnections: a Map, kept as its entries in insertion order
mapHas(m, k) == \E i \in 1..Len(m) : m[i].key = k

\* Map.get: the handle under the key, 0 for undefined
mapGet(m, k) == IF mapHas(m, k) THEN m[CHOOSE i \in 1..Len(m) : m[i].key = k].ws ELSE 0

\* a set that appends the entry whatever the registry holds
mapSet_append(m, k, w) == Append(m, [key |-> k, ws |-> w])

\* Map.set: an entry of the same key is replaced where it stands
mapSet(m, k, w) ==
  IF mapHas(m, k)
  THEN [i \in 1..Len(m) |-> IF m[i].key = k THEN [key |-> k, ws |-> w] ELSE m[i]]
  ELSE Append(m, [key |-> k, ws |-> w])

mapKeep(e, k) == e.key # k

\* a delete that leaves the entry in place
mapDelete_noop(m, k) == m

\* Map.delete
mapDelete(m, k) == SelectSeq(m, LAMBDA e : mapKeep(e, k))

\* Array.from(activeConnections.keys())
mapKeys(m) == [i \in 1..Len(m) |-> m[i].key]

\* the frames the server sends, as the objects it serialises
Frame(ty, sender, content, users, err, stamp) ==
  [type |-> ty, senderId |-> sender, content |-> content, users |-> users,
   error |-> err, timestamp |-> stamp]

Pong == Frame("pong", Undef, Undef, <<>>, "", TRUE)

ErrorFrame == Frame("error", Undef, Undef, <<>>, "Invalid message format", FALSE)

Welcome == Frame("system", Undef, Str("Connected to Echo Chat"), <<>>, "", TRUE)

MessageFrame(sender, content) == Frame("message", sender, content, <<>>, "", TRUE)

OnlineUsers(users) == Frame("online_users", Undef, Undef, users, "", TRUE)

\* ws.send(JSON.stringify(frame)) on the session h
send(h, frame) == [to |-> h, frame |-> frame]

\* a send that throws whenever the socket is not OPEN
sendThrows_notOpen(ss, call) == ss[call.to].state # "open"

\* whether ws.send throws: the ws that exports WebSocketServer hands a frame
\* for a socket that is CLOSING or CLOSED to sendAfterClose, which drops it
\* and, with no callback given, raises nothing
sendThrows(ss, call) == FALSE

\* a call of ws.send and whether the frame went out: it does on an OPEN socket
outcome(ss, call) == [to |-> call.to, frame |-> call.frame,
                      sent |-> ss[call.to].state = "open"]

\* the calls of ws.send a handler makes, in order, up to one that throws
RECURSIVE transmit(_, _)
transmit(ss, calls) ==
  IF calls = <<>> THEN [sent |-> <<>>, threw |-> FALSE]
  ELSE IF sendThrows(ss, Head(calls)) THEN [sent |-> <<>>, threw |-> TRUE]
  ELSE [sent |-> <<outcome(ss, Head(calls))>> \o transmit(ss, Tail(calls)).sent,
        threw |-> transmit(ss, Tail(calls)).threw]

\* catch (error) of the connection handler: ws.close(1008, 'Invalid token');
\* the handlers that follow the throwing statement were not attached
catchConnection(s) == Session("rejected", s.userId, FALSE, FALSE, 1008)

\* broadcastOnlineUsers: the list of keys to every registered handle
broadcastOnlineUsers(m) == [i \in 1..Len(m) |-> send(m[i].ws, OnlineUsers(mapKeys(m)))]

\* the text frames of the clients
PingText == "{\"type\":\"ping\"}"

BadText == "{\"type\":"

NullText == "null"

PrivateText(r) == "{\"type\":\"private\",\"receiverId\":\"" \o r \o "\",\"content\":\"hi\"}"

SpoofText(r, sender) ==
  "{\"type\":\"private\",\"receiverId\":\"" \o r \o "\",\"content\":\"hi\",\"senderId\":\""
    \o sender \o "\"}"

Receivers == {"u1", "u2", "u3"}

Payloads == {PingText, BadText, NullText, SpoofText("u2", "u1")}
              \cup {PrivateText(r) : r \in Receivers}

\* a parsed message
Message(ty, receiver, content, sender) ==
  [isNull |-> FALSE, type |-> ty, receiverId |-> receiver, content |-> content,
   senderId |-> sender]

NullMessage == [Message(Undef, Undef, Undef, Undef) EXCEPT !.isNull = TRUE]

\* JSON.parse(data.toString()): the value, or the SyntaxError it throws
JSONparse(text) ==
  IF text = PingText THEN [ok |-> TRUE, value |-> Message(Str("ping"), Undef, Undef, Undef)]
  ELSE IF text = NullText THEN [ok |-> TRUE, value |-> NullMessage]
  ELSE IF \E r \in Receivers : text = PrivateText(r)
       THEN [ok |-> TRUE,
             value |-> Message(Str("private"),
                               Str(CHOOSE r \in Receivers : text = PrivateText(r)),
                               Str("hi"), Undef)]
  ELSE IF text = SpoofText("u2", "u1")
       THEN [ok |-> TRUE, value |-> Message(Str("private"), Str("u2"), Str("hi"), Str("u1"))]
  ELSE [ok |-> FALSE, value |-> NullMessage]

\* a close that goes on to attach the message handler
closePolicyViolation_listening(m) ==
  [session |-> Session("rejected", Undef, TRUE, FALSE, 1008), registry |-> m, sent |-> <<>>]

\* ws.close(1008, reason); return: no handler is attached, nothing registered
closePolicyViolation(m) ==
  [session |-> Session("rejected", Undef, FALSE, FALSE, 1008), registry |-> m, sent |-> <<>>]

\* gateway.js v1.1 wss.on('connection')
wsConnection_gw1(h, token, secret, m) ==
  IF token.form = "absent" THEN closePolicyViolation(m)
  ELSE IF ~jwtVerify(token, secret).ok THEN closePolicyViolation(m)
  ELSE IF ~Truthy(wsUserId_gw1(token)) THEN closePolicyViolation(m)
  ELSE [session |-> Session("open", wsUserId_gw1(token), TRUE, TRUE, 0),
        registry |-> mapSet(m, toString(wsUserId_gw1(token)), h),
        sent |-> <<>>]

\* gateway.js v1.4 wss.on('connection')
wsConnection_gw2(h, token, secret, m) ==
  IF token.form = "absent" THEN closePolicyViolation(m)
  ELSE IF ~jwtVerify(token, secret).ok THEN closePolicyViolation(m)
  ELSE IF ~Truthy(wsUserId_gw2(token)) THEN closePolicyViolation(m)
  ELSE [session |-> Session("open", wsUserId_gw2(token), TRUE, TRUE, 0),
        registry |-> mapSet(m, toString(wsUserId_gw2(token)), h),
        sent |-> <<>>]

\* echo.js wss.on('connection'): the welcome and the presence broadcast follow
\* the registration
wsConnection_echo(h, token, secret, m) ==
  IF token.form = "absent" THEN closePolicyViolation(m)
  ELSE IF ~jwtVerify(token, secret).ok THEN closePolicyViolation(m)
  ELSE IF ~Truthy(wsUserId_echo(token)) THEN closePolicyViolation(m)
  ELSE [session |-> Session("open", wsUserId_echo(token), TRUE, TRUE, 0),
        registry |-> mapSet(m, toString(wsUserId_echo(token)), h),
        sent |-> <<send(h, Welcome)>>
                   \o broadcastOnlineUsers(mapSet(m, toString(wsUserId_echo(token)), h))]

\* echo (1).js wss.on('connection'): no message handler is attached
wsConnection_echo1(h, token, secret, m) ==
  IF token.form = "absent" THEN closePolicyViolation(m)
  ELSE IF ~jwtVerify(token, secret).ok THEN closePolicyViolation(m)
  ELSE IF ~Truthy(wsUserId_echo1(token)) THEN closePolicyViolation(m)
  ELSE [session |-> Session("open", wsUserId_echo1(token), FALSE, TRUE, 0),
        registry |-> mapSet(m, toString(wsUserId_echo1(token)), h),
        sent |-> <<>>]

wsConnection(v, h, token, secret, m) ==
  CASE v = "gw1" -> wsConnection_gw1(h, token, secret, m)
    [] v = "gw2" -> wsConnection_gw2(h, token, secret, m)
    [] v = "echo" -> wsConnection_echo(h, token, secret, m)
    [] v = "echo1" -> wsConnection_echo1(h, token, secret, m)

\* gateway.js v1.1 ws.on('message'): a pong for a ping; what JSON.parse or
\* the read of message.type throws is answered with the error frame
onMessage_gw1(h, data) ==
  IF ~JSONparse(data).ok \/ JSONparse(data).value.isNull THEN <<send(h, ErrorFrame)>>
  ELSE IF JSONparse(data).value.type = Str("ping") THEN <<send(h, Pong)>>
  ELSE <<>>

\* gateway.js v1.4 ws.on('message')
onMessage_gw2(h, data) ==
  IF ~JSONparse(data).ok \/ JSONparse(data).value.isNull THEN <<send(h, ErrorFrame)>>
  ELSE IF JSONparse(data).value.type = Str("ping") THEN <<send(h, Pong)>>
  ELSE <<>>

\* a relay that tells every registered session of an unknown receiver
handleChatMessage_notify(senderId, message, m) ==
  IF message.type = Str("private") /\ Truthy(message.receiverId)
  THEN IF mapGet(m, toString(message.receiverId)) # 0
       THEN <<send(mapGet(m, toString(message.receiverId)),
                   MessageFrame(senderId, message.content))>>
       ELSE [i \in 1..Len(m) |-> send(m[i].ws, ErrorFrame)]
  ELSE <<>>

\* echo.js handleChatMessage: a private message goes to the handle registered
\* under the receiver's id, if there is one
handleChatMessage(senderId, message, m) ==
  IF message.type = Str("private") /\ Truthy(message.receiverId)
  THEN IF mapGet(m, toString(message.receiverId)) # 0
       THEN <<send(mapGet(m, toString(message.receiverId)),
                   MessageFrame(senderId, message.content))>>
       ELSE <<>>
  ELSE <<>>

\* a message handler that takes the sender from the payload
onMessage_echo_trusting(h, userId, data, m) ==
  IF ~JSONparse(data).ok \/ JSONparse(data).value.isNull THEN <<send(h, ErrorFrame)>>
  ELSE handleChatMessage(JSONparse(data).value.senderId, JSONparse(data).value, m)

\* echo.js ws.on('message'): what JSON.parse throws, and the rejection of
\* handleChatMessage on null, are answered with the error frame
onMessage_echo(h, userId, data, m) ==
  IF ~JSONparse(data).ok \/ JSONparse(data).value.isNull THEN <<send(h, ErrorFrame)>>
  ELSE handleChatMessage(userId, JSONparse(data).value, m)

onMessage(v, h, userId, data, m) ==
  CASE v = "gw1" -> onMessage_gw1(h, data)
    [] v = "gw2" -> onMessage_gw2(h, data)
    [] v = "echo" -> onMessage_echo(h, userId, data, m)
    [] v = "echo1" -> <<>>

\* ws.on('close'): the entry under the session's userId is deleted; echo.js
\* broadcasts the presence afterwards
onClose(v, userId, m) ==
  [registry |-> mapDelete(m, toString(userId)),
   sent |-> IF v = "echo" THEN broadcastOnlineUsers(mapDelete(m, toString(userId)))
            ELSE <<>>]

\* what the last WebSocket event was: the session, the token of a connect, the
\* text of a frame, whether a message handler ran, and whether the session
\* held a registry entry when the event arrived
Event(k, h, token, data, handled, registered) ==
  [kind |-> k, ws |-> h, token |-> token, payload |-> data, handled |-> handled,
   registered |-> registered]

NoEvent == Event("none", 0, Absent, "", FALSE, FALSE)

\* the handle holds an entry of the registry
registeredIn(m, h) == \E i \in 1..Len(m) : m[i].ws = h

\* no WebSocket has connected
WsIdle ==
  /\ sessions = [h \in Handles |-> NoSession]
  /\ activeConnections = <<>>
  /\ wsEvent = NoEvent
  /\ wsSent = <<>>

(***************************************************************************)
(* The state machine.                                                      *)
(***************************************************************************)
Init ==
  /\ variant \in Variants
  /\ envSecret \in EnvSecrets
  /\ running = StartsUp(variant, envSecret)
  /\ pc = "idle"
  /\ req = NoRequest
  /\ route = NoRoute
  /\ user = NoUser
  /\ out = NoOutbound
  /\ hops = 0
  /\ waited = 0
  /\ answers = <<>>
  /\ failure = ""
  /\ resp = NoResponse
  /\ upstreamCalls = 0
  /\ responses = 0
  /\ WsIdle

\* an inbound request arrives: the router and the handler run up to the
\* response or to the await of the upstream
HandleRequest(r) ==
  /\ \E d \in {app(variant, r, JWT_SECRET(variant, envSecret))} :
     /\ req' = r
     /\ route' = [d.route EXCEPT !.handler = d.result.handler]
     /\ user' = d.result.user
     /\ out' = sendBody(d.result.out, r)
     /\ resp' = d.result.resp
     /\ pc' = CASE d.result.kind = "respond" -> "done"
                [] d.result.kind = "forward" -> "awaiting"
                [] d.result.kind = "probe" -> "probing"
     /\ upstreamCalls' = IF d.result.kind = "forward" THEN 1 ELSE 0
     /\ responses' = IF d.result.resp # NoResponse THEN 1 ELSE 0
  /\ UNCHANGED wsVars
  /\ UNCHANGED <<variant, envSecret, running, hops, waited, answers, failure>>

\* the server takes the next inbound request
Receive ==
  /\ running
  /\ pc = "idle"
  /\ \E r \in Requests : HandleRequest(r)

\* the axios timer of the forwarding call has not fired
InTime == ForwardTimeout(variant) = 0 \/ waited * TickMs < ForwardTimeout(variant)

\* time passes while the gateway awaits the upstream
Tick ==
  /\ pc = "awaiting"
  /\ InTime
  /\ waited < MaxTicks
  /\ waited' = waited + 1
  /\ UNCHANGED wsVars
  /\ UNCHANGED <<variant, envSecret, running, pc, req, route, user, out, hops,
                 answers, failure, resp, upstreamCalls, responses>>

\* the upstream answers with a redirect and axios follows it: it requests the
\* Location from the upstream
FollowRedirect(a) ==
  /\ pc = "awaiting"
  /\ InTime
  /\ a.location
  /\ FollowsRedirects(variant)
  /\ hops < MaxHops
  /\ hops' = hops + 1
  /\ upstreamCalls' = upstreamCalls + 1
  /\ answers' = Append(answers, a)
  /\ UNCHANGED wsVars
  /\ UNCHANGED <<variant, envSecret, running, pc, req, route, user, out,
                 waited, failure, resp, responses>>

\* the upstream answers and the handler responds
UpstreamAnswer(a) ==
  /\ pc = "awaiting"
  /\ InTime
  /\ a.location => ~FollowsRedirects(variant)
  /\ answers' = Append(answers, a)
  /\ resp' = settle(variant, route.handler, req, out, a)
  /\ pc' = "done"
  /\ responses' = responses + 1
  /\ UNCHANGED wsVars
  /\ UNCHANGED <<variant, envSecret, running, req, route, user, out, hops,
                 waited, failure, upstreamCalls>>

\* the axios call fails at transport level
UpstreamFail(c) ==
  /\ pc = "awaiting"
  /\ InTime
  /\ failure' = c
  /\ resp' = catch(variant, route.handler, req, Error(c))
  /\ pc' = "done"
  /\ responses' = responses + 1
  /\ UNCHANGED wsVars
  /\ UNCHANGED <<variant, envSecret, running, req, route, user, out, hops,
                 waited, answers, upstreamCalls>>

\* the axios timer fires: the call is aborted with ECONNABORTED
AxiosTimeout ==
  /\ pc = "awaiting"
  /\ ~InTime
  /\ failure' = "ECONNABORTED"
  /\ resp' = catch(variant, route.handler, req, Error("ECONNABORTED"))
  /\ pc' = "done"
  /\ responses' = responses + 1
  /\ UNCHANGED wsVars
  /\ UNCHANGED <<variant, envSecret, running, req, route, user, out, hops,
                 waited, answers, upstreamCalls>>

\* the health probe succeeds
ProbeOk ==
  /\ pc = "probing"
  /\ resp' = healthy(variant)
  /\ pc' = "done"
  /\ responses' = responses + 1
  /\ UNCHANGED wsVars
  /\ UNCHANGED <<variant, envSecret, running, req, route, user, out, hops,
                 waited, answers, failure, upstreamCalls>>

\* the health probe fails or times out
ProbeFail(c) ==
  /\ pc = "probing"
  /\ failure' = c
  /\ resp' = degraded(variant, c)
  /\ pc' = "done"
  /\ responses' = responses + 1
  /\ UNCHANGED wsVars
  /\ UNCHANGED <<variant, envSecret, running, req, route, user, out, hops,
                 waited, answers, upstreamCalls>>

\* the response is on its way; the next inbound request may arrive
Complete ==
  /\ pc = "done"
  /\ pc' = "idle"
  /\ req' = NoRequest
  /\ route' = NoRoute
  /\ user' = NoUser
  /\ out' = NoOutbound
  /\ hops' = 0
  /\ waited' = 0
  /\ answers' = <<>>
  /\ failure' = ""
  /\ resp' = NoResponse
  /\ upstreamCalls' = 0
  /\ responses' = 0
  /\ UNCHANGED wsVars
  /\ UNCHANGED <<variant, envSecret, running>>

Next ==
  \/ Receive
  \/ Tick
  \/ \E a \in Answers : FollowRedirect(a)
  \/ \E a \in Answers : UpstreamAnswer(a)
  \/ \E c \in TransportErrors : UpstreamFail(c)
  \/ AxiosTimeout
  \/ ProbeOk
  \/ \E c \in TransportErrors \cup {"ECONNABORTED"} : ProbeFail(c)
  \/ Complete

Spec == Init /\ [][Next]_vars

\* the same server when time keeps passing and a timer that is due fires; the
\* upstream is free never to answer
LiveSpec == Init /\ [][Next]_vars /\ WF_vars(Tick) /\ WF_vars(AxiosTimeout)

(***************************************************************************)
(* The WebSocket server: connects, frames and closes of the sessions.      *)
(***************************************************************************)
HttpIdle ==
  /\ pc = "idle"
  /\ req = NoRequest
  /\ route = NoRoute
  /\ user = NoUser
  /\ out = NoOutbound
  /\ hops = 0
  /\ waited = 0
  /\ answers = <<>>
  /\ failure = ""
  /\ resp = NoResponse
  /\ upstreamCalls = 0
  /\ responses = 0

\* a deployment that set JWT_SECRET, before the first connection
WsInit ==
  /\ variant \in Variants
  /\ envSecret \in {e \in EnvSecrets : Truthy(e)}
  /\ running = StartsUp(variant, envSecret)
  /\ HttpIdle
  /\ WsIdle

\* wss.on('connection'): a client connects with the token of its query
WsConnect(h, token) ==
  /\ running
  /\ sessions[h].state = "new"
  /\ \A g \in Handles : g < h => sessions[g].state # "new"
  /\ \E c \in {wsConnection(variant, h, token, JWT_SECRET(variant, envSecret),
                            activeConnections)} :
     \E t \in {transmit([sessions EXCEPT ![h] = c.session], c.sent)} :
       /\ sessions' = [sessions EXCEPT ![h] = IF t.threw THEN catchConnection(c.session)
                                               ELSE c.session]
       /\ activeConnections' = c.registry
       /\ wsSent' = t.sent
  /\ wsEvent' = Event("connect", h, token, "", FALSE, FALSE)
  /\ UNCHANGED <<variant, envSecret, running>>
  /\ UNCHANGED httpVars

\* a text frame of the client arrives; the message handler runs if the
\* connection handler attached one
WsMessage(h, data) ==
  /\ sessions[h].state \in {"open", "rejected"}
  /\ wsSent' = IF sessions[h].onMessage
               THEN transmit(sessions, onMessage(variant, h, sessions[h].userId, data,
                                                 activeConnections)).sent
               ELSE <<>>
  /\ wsEvent' = Event("message", h, Absent, data, sessions[h].onMessage,
                      registeredIn(activeConnections, h))
  /\ UNCHANGED <<variant, envSecret, running, sessions, activeConnections>>
  /\ UNCHANGED httpVars

\* the peer of an open session goes away or starts the closing handshake: the
\* socket is no longer OPEN, its 'close' event has not been emitted yet
WsClosing(h) ==
  /\ sessions[h].state = "open"
  /\ sessions' = [sessions EXCEPT ![h].state = "closing"]
  /\ wsSent' = <<>>
  /\ wsEvent' = Event("closing", h, Absent, "", FALSE, registeredIn(activeConnections, h))
  /\ UNCHANGED <<variant, envSecret, running, activeConnections>>
  /\ UNCHANGED httpVars

\* the transport of a session closes; the close handler runs
WsClose(h) ==
  /\ sessions[h].state \in {"open", "closing"}
  /\ sessions' = [sessions EXCEPT ![h].state = "closed", ![h].closeCode = 1000]
  /\ \E c \in {onClose(variant, sessions[h].userId, activeConnections)} :
       /\ activeConnections' = IF sessions[h].onClose THEN c.registry
                               ELSE activeConnections
       /\ wsSent' = IF sessions[h].onClose
                    THEN transmit([sessions EXCEPT ![h].state = "closed"], c.sent).sent
                    ELSE <<>>
  /\ wsEvent' = Event("close", h, Absent, "", FALSE, registeredIn(activeConnections, h))
  /\ UNCHANGED <<variant, envSecret, running>>
  /\ UNCHANGED httpVars

WsNext ==
  \/ \E h \in Handles : \E token \in WsTokens : WsConnect(h, token)
  \/ \E h \in Handles : \E data \in Payloads : WsMessage(h, data)
  \/ \E h \in Handles : WsClosing(h)
  \/ \E h \in Handles : WsClose(h)

WsSpec == WsInit /\ [][WsNext]_vars

(***************************************************************************)
(* Vocabulary of the properties.                                           *)
(***************************************************************************)
\* the configured signing secret of the running gateway
Secret == JWT_SECRET(variant, envSecret)

\* the allow-list of the variant
publicPaths(v) == CASE v = "gw1" -> publicPaths_gw1
                    [] v = "gw2" -> publicPaths_gw2
                    [] v = "echo" -> publicPaths_echo
                    [] v = "echo1" -> publicPaths_echo1

\* the login and register paths of the allow-list
LoginPaths(v) == publicPaths(v) \ {"/health", "/"}

\* PUBLIC as the design defines it: an allow-list entry, matched exactly and
\* without regard to case, or a subpath of the health endpoint
DesignPublic(v, path) ==
  toLowerCase(path) \in publicPaths(v) \/ StartsWith(toLowerCase(path), "/health/")

\* the request in the slot went to a route that requires authentication, on
\* a path the design classifies PROTECTED
Protected == pc # "idle" /\ route.auth /\ ~DesignPublic(variant, req.path)

\* the same, on a path that does not start with the text "/health"
ProtectedPlain == Protected /\ ~StartsWith(toLowerCase(req.path), "/health")

TheToken == req.authorization.token

\* the deployment sets JWT_SECRET in its environment
Configured == Truthy(envSecret)

\* the bearer token of the request is a JWT signed with the configured secret
SignedToken ==
  Configured /\ hasBearer(req) /\ TheToken.form = "jwt" /\ Str(TheToken.key) = Secret

\* the response is the 401 with this code and nothing went upstream
Refused(c) == resp.status = 401 /\ resp.code = c /\ ~out.issued /\ upstreamCalls = 0

\* C1: a request to a protected route without a Bearer Authorization header
\* gets 401 NO_TOKEN and no upstream request is issued for it.
C1_NoTokenRefused == (Protected /\ ~hasBearer(req)) => Refused("NO_TOKEN")

\* an outbound identity header carries the identity's value, or nothing
CarriesIdentity(h, val) ==
  IF user.set /\ Truthy(val) THEN h = val ELSE h \in {Undef, Str("")}

\* C2: the outbound x-user-id and x-user-role headers of a forwarded request
\* are the validated identity's id and role (empty when absent), never what
\* the client supplied.
C2_IdentityHeaders ==
  (Configured /\ out.issued) => /\ CarriesIdentity(out.xUserId, user.id)
                                 /\ CarriesIdentity(out.xUserRole, user.role)

\* two bodies are the same text, or the same JSON up to insignificant spaces
SameBody(a, b) ==
  \/ a = b
  \/ /\ Len(a) > 0 /\ Len(b) > 0
     /\ SubSeq(a, 1, 1) = "{" /\ SubSeq(b, 1, 1) = "{"
     /\ StripSpaces(a) = StripSpaces(b)

\* C3: when the upstream answers the forwarded request with status S and
\* body B, the response to the client has status S and body B (stated here
\* for answers with a body that are not redirects to follow).
C3_Passthrough ==
  (pc = "done" /\ answers # <<>> /\ ~answers[1].location /\ answers[1].body # "")
    => (resp.status = answers[1].status /\ SameBody(resp.body, answers[1].body))

\* C4: a request without Authorization header to a login or register path of
\* the allow-list is forwarded to the upstream (stated here for POST).
C4_AllowListForwarded ==
  (/\ pc # "idle"
   /\ req.method = "POST"
   /\ req.path \in LoginPaths(variant)
   /\ req.authorization.scheme = "none")
    => (out.issued /\ resp.status # 401)

\* C5: a request routed through a handler that requires authentication is
\* forwarded upstream only after its bearer token has been validated: no
\* path beyond the allow-list and the health subpaths passes as public.
C5_ForwardedOnlyValidated == (out.issued /\ route.auth) => user.set

\* C6: a token with a valid signature whose expiry has passed gets 401
\* TOKEN_EXPIRED on every protected route and is not forwarded.
C6_ExpiredRefused ==
  (ProtectedPlain /\ SignedToken /\ TheToken.expired) => Refused("TOKEN_EXPIRED")

\* C7: a token signed with another secret than the configured one gets 401
\* INVALID_TOKEN on every protected route and is not forwarded.
C7_WrongSecretRefused ==
  (/\ ProtectedPlain
   /\ Configured
   /\ hasBearer(req)
   /\ TheToken.form = "jwt"
   /\ Str(TheToken.key) # Secret)
    => Refused("INVALID_TOKEN")

\* the claims of the token name none of userId, id, user_id
NoIdField == TheToken.userId = Undef /\ TheToken.id = Undef /\ TheToken.user_id = Undef

\* C8: a correctly signed, unexpired token without any of the id fields gets
\* 401 INVALID_TOKEN and is not forwarded, and no request is forwarded with an
\* authenticated identity whose id is empty or undefined.
C8_NoIdRefused ==
  /\ (ProtectedPlain /\ SignedToken /\ ~TheToken.expired /\ NoIdField)
       => Refused("INVALID_TOKEN")
  /\ (Configured /\ out.issued /\ user.set) => Truthy(user.id)

\* the recognized id fields in the priority order of the variant
PriorityOrder(v) == IF v = "gw2" THEN <<"user_id", "userId", "id">>
                    ELSE <<"userId", "id", "user_id">>

\* the first non-empty value among the fields of the decoded claims, in order
FirstNonEmpty(decoded, order) ==
  IF Truthy(decoded[order[1]]) THEN decoded[order[1]]
  ELSE IF Truthy(decoded[order[2]]) THEN decoded[order[2]]
  ELSE decoded[order[3]]

\* the id a WebSocket connection of the variant takes from the same claims
wsUserId(v, decoded) == CASE v = "gw1" -> wsUserId_gw1(decoded)
                          [] v = "gw2" -> wsUserId_gw2(decoded)
                          [] v = "echo" -> wsUserId_echo(decoded)
                          [] v = "echo1" -> wsUserId_echo1(decoded)

\* the identity of the request is the first non-empty id field, in the order
\* of the variant, and the id a WebSocket connection takes from the token
IdentityInOrder ==
  /\ user.set
  /\ user.id = FirstNonEmpty(TheToken, PriorityOrder(variant))
  /\ user.id = wsUserId(variant, TheToken)

SkipsValidation ==
  \/ variant \in {"gw1", "echo1"} /\ req.path \in publicPaths(variant)
  \/ variant = "gw2" /\ isPublic_gw2(req.path)

C10_TimeoutIs504 ==
  (/\ pc = "done"
   /\ out.issued
   /\ answers = <<>>
   /\ waited * TickMs >= RequestTimeout
   /\ failure \in {"ECONNABORTED", "ETIMEDOUT"})
    => (resp.status = 504 /\ resp.code = "BACKEND_TIMEOUT")

\* C11: when a forwarded request fails at transport level for a reason other
\* than a timeout (connection refused, DNS failure, reset), the response is
\* 502 with an error string, code BACKEND_ERROR and the path of the request.
C11_TransportFailureIs502 ==
  (/\ pc = "done"
   /\ out.issued
   /\ answers = <<>>
   /\ failure \in {"ECONNREFUSED", "ENOTFOUND", "ECONNRESET"})
    => /\ resp.status = 502
       /\ resp.code = "BACKEND_ERROR"
       /\ resp.error # ""
       /\ resp.path = originalUrl(req)

\* C12: GET /health answers 200 in every case; the body says degraded and
\* disconnected when the probe of the upstream failed or timed out, healthy
\* and connected otherwise.
C12_HealthAlways200 ==
  (pc = "done" /\ route.handler = "health")
    => /\ resp.status = 200
       /\ IF failure # ""
          THEN resp.health = "degraded" /\ resp.backend = "disconnected"
          ELSE resp.health = "healthy" /\ resp.backend = "connected"

\* C13: with the signing secret absent from the configuration the gateway
\* does not run, and no token is validated against a built-in secret.
C13_NoSecretNoStart ==
  ~Configured => (~running /\ ~user.set /\ ~Truthy(Secret))

(***************************************************************************)
(* Properties of the WebSocket sessions.                                   *)
(***************************************************************************)
\* the session of the last WebSocket event
TheSession == sessions[wsEvent.ws]

\* the last event is a connect that authenticated
Accepted == wsEvent.kind = "connect" /\ TheSession.state = "open"

\* the identity id of the token of the last connect, as a registry key
TheKey == toString(FirstNonEmpty(wsEvent.token, PriorityOrder(variant)))

\* the positions of the registry that hold the key
EntriesOf(k) == {i \in 1..Len(activeConnections) : activeConnections[i].key = k}

\* C14: the registry holds at most one entry per identity id, and after a
\* session authenticated, exactly one entry for its id, which maps to the
\* handle of that session, whatever session held the id before.
C14_OneEntryPerId ==
  /\ \A i, j \in 1..Len(activeConnections) :
       activeConnections[i].key = activeConnections[j].key => i = j
  /\ Accepted => /\ Cardinality(EntriesOf(TheKey)) = 1
                 /\ \A i \in EntriesOf(TheKey) : activeConnections[i].ws = wsEvent.ws

\* a second session authenticated with the id of a session that is open
C14_Witness ==
  /\ Accepted
  /\ \E g \in Handles : /\ g # wsEvent.ws
                        /\ sessions[g].state = "open"
                        /\ toString(sessions[g].userId) = TheKey

\* the token is missing, not a token of the configured secret, expired, or
\* carries no user id
BadWsToken(token) ==
  \/ token.form # "jwt"
  \/ Str(token.key) # Secret
  \/ token.expired
  \/ (~Truthy(token.userId) /\ ~Truthy(token.id) /\ ~Truthy(token.user_id))

\* C15: a connection whose token is missing, invalid, expired or without a
\* user id is closed with code 1008, is never in the registry, and no message
\* handler processes a frame that arrives from it.
C15_BadTokenRejected ==
  /\ (wsEvent.kind = "connect" /\ BadWsToken(wsEvent.token))
       => TheSession.state = "rejected"
  /\ \A h \in Handles :
       sessions[h].state = "rejected"
         => /\ sessions[h].closeCode = 1008
            /\ ~registeredIn(activeConnections, h)
            /\ ~sessions[h].onMessage
  /\ (wsEvent.kind = "message" /\ TheSession.state = "rejected")
       => (~wsEvent.handled /\ wsSent = <<>>)

\* a frame arrived from a connection that was refused
C15_Witness ==
  /\ wsEvent.kind = "message"
  /\ TheSession.state = "rejected"
  /\ TheSession.closeCode = 1008

\* C16: the registry holds no handle of a closed session: after the
\* transport of a registered session closed, no id maps to its handle.
C16_ClosedUnregistered ==
  /\ \A i \in 1..Len(activeConnections) :
       sessions[activeConnections[i].ws].state \in {"open", "closing"}
  /\ wsEvent.kind = "close" => ~registeredIn(activeConnections, wsEvent.ws)

\* a session that held an entry of the registry closed
C16_Witness ==
  /\ wsEvent.kind = "close"
  /\ wsEvent.registered
  /\ TheSession.state = "closed"

\* a frame arrived on an Open session
FrameOnOpen == wsEvent.kind = "message" /\ TheSession.state = "open"

ToSender(e) == e.to = wsEvent.ws

\* what the server sent to the sender of the last frame, in order
SentToSender == SelectSeq(wsSent, ToSender)

\* C17: a ping frame on an Open session is answered with exactly one pong
\* that carries a timestamp, the first frame sent to the session after it.
C17_PingPong ==
  (FrameOnOpen /\ wsEvent.payload = PingText)
    => /\ Len(SentToSender) = 1
       /\ SentToSender[1].frame.type = "pong"
       /\ SentToSender[1].frame.timestamp

\* C18: a payload that does not parse, on an Open session, is answered with
\* exactly one error frame to the sender, and the session stays Open and
\* registered.
C18_ErrorReply ==
  (FrameOnOpen /\ wsEvent.payload = BadText)
    => /\ Len(SentToSender) = 1
       /\ SentToSender[1].frame.type = "error"
       /\ wsEvent.registered => registeredIn(activeConnections, wsEvent.ws)

\* the last frame is a private message to the receiver id r
PrivateTo(r) == FrameOnOpen /\ wsEvent.payload = PrivateText(r)

\* C19: a private message to a registered receiverId is delivered as exactly
\* one message frame, to the handle registered under that id and to no other
\* connection.
C19_PrivateDelivered ==
  \A r \in Receivers :
    (PrivateTo(r) /\ EntriesOf(r) # {})
      => /\ Len(wsSent) = 1
         /\ wsSent[1].frame.type = "message"
         /\ wsSent[1].frame.senderId = TheSession.userId
         /\ wsSent[1].frame.content = Str("hi")
         /\ \A i \in EntriesOf(r) : wsSent[1].to = activeConnections[i].ws

\* the step delivers a private message whose receiverId holds no entry
ToUnregistered ==
  /\ wsEvent'.kind = "message"
  /\ sessions[wsEvent'.ws].state = "open"
  /\ \E r \in Receivers : /\ wsEvent'.payload = PrivateText(r)
                          /\ EntriesOf(r) = {}

\* C20: a private message to a receiverId that is not in the registry sends
\* no frame to any connection, the sender included, and leaves the registry
\* and the sessions as they were.
C20_UnregisteredDropped ==
  [][ToUnregistered => /\ wsSent' = <<>>
                       /\ activeConnections' = activeConnections
                       /\ sessions' = sessions]_vars

\* the relay of echo.js took a private message to an id without an entry,
\* while other sessions are registered
C20_Witness ==
  /\ variant = "echo"
  /\ FrameOnOpen
  /\ wsEvent.handled
  /\ activeConnections # <<>>
  /\ \E r \in Receivers : wsEvent.payload = PrivateText(r) /\ EntriesOf(r) = {}

\* the ids that have an Open session: one whose close the server has not seen
OpenIds == {toString(sessions[h].userId) :
              h \in {g \in Handles : sessions[g].state \in {"open", "closing"}}}

\* the frames of the last event that went to the session h
FramesTo(h) == {i \in 1..Len(wsSent) : wsSent[i].to = h}

\* the members of a list of keys
Members(users) == {users[i] : i \in 1..Len(users)}

\* C21: when a session closes, the presence frame that follows goes to every
\* session that is still Open, and lists exactly the ids that still have an
\* Open session.
C21_PresenceAfterClose ==
  wsEvent.kind = "close"
    => \A h \in Handles :
         sessions[h].state = "open"
           => /\ Cardinality(FramesTo(h)) = 1
              /\ \A i \in FramesTo(h) :
                   /\ wsSent[i].frame.type = "online_users"
                   /\ Members(wsSent[i].frame.users) = OpenIds

\* C22: a request that no route takes gets 404 with a structured body of
\* code NOT_FOUND, an error that no handler caught gets 500 with a
\* structured body of code GATEWAY_ERROR, and neither body carries a trace.
C22_StructuredErrors ==
  /\ (pc = "done" /\ route.handler \in {"notFound", "finalhandler"})
       => (resp.status = 404 /\ resp.code = "NOT_FOUND" /\ resp.detail = "")
  /\ (pc = "done" /\ route.handler = "errorHandler")
       => (resp.status = 500 /\ resp.code = "GATEWAY_ERROR" /\ resp.detail = "")

\* the path and the query string of a url
PathOf(url) ==
  IF indexOf(url, "?", 1) = 0 THEN url ELSE SubSeq(url, 1, indexOf(url, "?", 1) - 1)

QueryOf(url) ==
  IF indexOf(url, "?", 1) = 0 THEN "" ELSE SubSeq(url, indexOf(url, "?", 1) + 1, Len(url))

\* the url the upstream is asked for
RequestedUrl == buildURL(out.url, out.params)

\* a proxy handler forwarded the request (the login and register routes of
\* echo.js name their own upstream path)
Proxied == out.issued /\ route.handler # "loginRoute"

\* C23: the outbound request of the forwarder has the method, the path, the
\* query parameters and the body of the inbound request; each inbound query
\* parameter is in the outbound request once (the body compared where the
\* inbound request has one).
C23_RequestPreserved ==
  Proxied => /\ out.method = req.method
             /\ PathOf(RequestedUrl) = req.path
             /\ QueryOf(RequestedUrl) = req.query
             /\ req.body # "" => SameBody(out.data, req.body)

\* an upstream that serves {"ok":true} for /widgets and nothing else
Stub(path) == IF path = "/widgets" THEN Answer(200, "{\"ok\":true}", FALSE)
              ELSE Answer(404, "Not Found", FALSE)

\* a GET of /api/widgets with a token that authenticates
WidgetsCall ==
  /\ pc # "idle"
  /\ req.method = "GET"
  /\ req.path = "/api/widgets"
  /\ SignedToken
  /\ ~TheToken.expired
  /\ ~lacksUserId(TheToken)

\* C24: GET /api/widgets with a valid bearer token is forwarded as /widgets,
\* so that with an upstream that serves {"ok":true} for GET /widgets only the
\* client receives 200 {"ok":true}.
C24_ApiPrefixStripped ==
  WidgetsCall
    => /\ out.issued
       /\ PathOf(RequestedUrl) = "/widgets"
       /\ (pc = "done" /\ answers = <<Stub(PathOf(RequestedUrl))>>)
            => (resp.status = 200 /\ SameBody(resp.body, "{\"ok\":true}"))

\* C25: an inbound request causes at most one request to the upstream; none
\* is sent again after a timeout, a transport failure or an error status.
C25_AtMostOneUpstreamRequest == upstreamCalls <= 1

\* an authenticated session is Open
OpenSession(h) == sessions[h].state = "open" /\ Truthy(sessions[h].userId)

\* C26: under every interleaving of connects and closes, the id of every
\* authenticated session that is still Open is a key of the registry.
C26_OpenIsReachable ==
  \A h \in Handles : OpenSession(h) => EntriesOf(toString(sessions[h].userId)) # {}

\* C27: every request handed to the forwarder eventually gets a response,
\* also when the upstream never answers: the timeout bounds the wait.
C27_ForwardedEventuallyAnswered == (pc = "awaiting") ~> (pc = "done")

\* the last event ran broadcastOnlineUsers: a connect that authenticated, or
\* a close with the close handler attached
Broadcast ==
  /\ variant = "echo"
  /\ \/ wsEvent.kind = "connect" /\ ~BadWsToken(wsEvent.token)
     \/ wsEvent.kind = "close" /\ TheSession.onClose

\* the presence frames of the last event that were handed to the session h
PresenceTo(h) ==
  {i \in 1..Len(wsSent) : wsSent[i].to = h /\ wsSent[i].frame.type = "online_users"}

C29_NoExceptionText == (pc = "done" /\ failure # "") => resp.detail = ""

\* C30: the senderId of every relayed private message is the id validated
\* from the token of the session that sent it, whatever the payload says.
C30_SenderIsTokenId ==
  wsEvent.kind = "message"
    => \A i \in 1..Len(wsSent) :
         wsSent[i].frame.type = "message"
           => /\ wsSent[i].frame.senderId = TheSession.userId
              /\ Truthy(TheSession.userId)

\* a session sent a private message whose payload names another sender, and
\* the message was relayed
C30_Witness ==
  /\ wsEvent.kind = "message"
  /\ wsEvent.payload = SpoofText("u2", "u1")
  /\ TheSession.userId # Str("u1")
  /\ \E i \in 1..Len(wsSent) : wsSent[i].frame.type = "message" /\ wsSent[i].sent

\* the response relays the last answer of the upstream
Passthrough ==
  /\ answers # <<>>
  /\ resp = relay(answers[Len(answers)].status, answers[Len(answers)].body)

\* at most one response is sent for a request, and one once its handler is
\* through; a 401 of the authentication comes without an upstream request
OneResponse ==
  /\ responses <= 1
  /\ pc = "done" => responses = 1
  /\ (pc = "done" /\ resp.status = 401 /\ answers = <<>>)
       => (~out.issued /\ upstreamCalls = 0)

\* the forwarder is through: its response is the passthrough, a 504 or a 502
ProxyResponse ==
  (pc = "done" /\ out.issued) => (Passthrough \/ resp.status \in {502, 504})

\* C31: every inbound request receives exactly one response: the 401 of a
\* failed authentication is the only one and nothing is forwarded, and a
\* forwarded request gets exactly one of passthrough, 504 or 502.
C31_ExactlyOneResponse ==
  /\ [](OneResponse /\ ProxyResponse)
  /\ (pc = "awaiting") ~> (responses = 1)

====
